---- MODULE Spec2Model ----
(***************************************************************************)
(* A model of jsonrpcclient/request.py: sort_request, the metaclass        *)
(* _RequestClassType, and the payload classes Notification and Request.    *)
(*                                                                         *)
(* Python values are records [kind, val]; the kind is the Python type.     *)
(* A dict used as a value holds a set of <<key, value>> pairs (dict        *)
(* equality ignores order); a payload (the Notification/Request object,    *)
(* itself a dict) is a sequence of <<key, value>> pairs, because its       *)
(* insertion order is what json.dumps writes.                              *)
(***************************************************************************)
EXTENDS Integers, Sequences, FiniteSets, TLC

VARIABLES
    gens,      \* cursor of every id generator: the next value it will yield
    issued,    \* ids given to the Requests built with neither request_id nor id_generator
    last,      \* the caller's view of the operation that just ran
    pc,        \* concurrent callers: position of each caller inside Request.__init__
    chosen,    \* concurrent callers: value read from the generator, not yet stored
    built,     \* concurrent callers: the payloads each caller has built
    overlap    \* concurrent callers: two callers were inside next() at once

vars == <<gens, issued, last, pc, chosen, built, overlap>>

----------------------------------------------------------------------------
\* Bounds of the model.

\* Longest tuple of positional arguments.
MaxArgs == 2
\* A generator is not advanced past this cursor.
MaxId == 2
\* Requests each concurrent caller builds.
MaxPerCaller == 2

----------------------------------------------------------------------------
\* Python values.

PyInt(n) == [kind |-> "int", val |-> n]
PyStr(s) == [kind |-> "str", val |-> s]
PyNone == [kind |-> "NoneType", val |-> 0]
PyList(s) == [kind |-> "list", val |-> s]
PyTuple(s) == [kind |-> "tuple", val |-> s]
PyDict(d) == [kind |-> "dict", val |-> d]

\* isinstance(v, dict), isinstance(v, list)
IsInstanceDict(v) == v.kind = "dict"
IsInstanceList(v) == v.kind = "list"

\* What the specification calls "a sequence or a mapping": every container
\* kind, a tuple included (a str counts as a scalar, as in Notification('cat',
\* 'Mittens', 5)).
IsSequenceOrMapping(v) == v.kind \in {"list", "tuple", "dict"}

\* The positional values the callers pass.
Values ==
    { PyStr("Mittens"), PyInt(5),
      PyList(<<PyInt(1), PyInt(2)>>), PyList(<<>>),
      PyTuple(<<PyInt(1), PyInt(2)>>),
      PyDict({<<"name", PyStr("Mittens")>>}) }

\* The tuples of at most n positional values.
RECURSIVE TuplesUpTo(_)
TuplesUpTo(n) ==
    IF n = 0 THEN { <<>> }
    ELSE LET shorter == TuplesUpTo(n - 1)
         IN  shorter \cup { Append(t, v) : t \in { u \in shorter : Len(u) = n - 1 },
                                           v \in Values }

ArgsSet == TuplesUpTo(MaxArgs)

\* The keyword arguments the callers pass, request_id apart.
KwItems == { <<"name", PyStr("Mittens")>>, <<"id", PyInt(5)>> }
\* The values given to request_id.
RequestIds == { PyNone, PyInt(7) }

KwargsSet ==
    { kw \cup rid : kw \in SUBSET KwItems,
                    rid \in {{}} \cup { {<<"request_id", r>>} : r \in RequestIds } }

HasKey(d, k) == \E p \in d : p[1] = k
Get(d, k) == (CHOOSE p \in d : p[1] = k)[2]
\* kwargs.pop(k, PyNone): the dict without the key
Pop(d, k) == { p \in d : p[1] # k }

----------------------------------------------------------------------------
\* dict operations on a payload.

Keys(self) == [i \in 1..Len(self) |-> self[i][1]]
HasItem(self, k) == \E i \in 1..Len(self) : self[i][1] = k
Item(self, k) == self[CHOOSE i \in 1..Len(self) : self[i][1] = k][2]

\* self.update(k=v): a new key goes last, an old key keeps its place
Update(self, k, v) ==
    IF HasItem(self, k)
    THEN [i \in 1..Len(self) |-> IF self[i][1] = k THEN <<k, v>> ELSE self[i]]
    ELSE Append(self, <<k, v>>)

\* the payload without key k
Without(self, k) == SelectSeq(self, LAMBDA p : p[1] # k)

----------------------------------------------------------------------------
\* id_generators (imported at request.py line 13).

\* The generator objects: Request.id_generator, the default shared by the
\* class, and one generator the caller made and passes as id_generator.
DefaultGen == "Request.id_generator"
CallerGen == "caller"
Generators == { DefaultGen, CallerGen }

\* First value of the caller's own generator, decimal(start).
CallerStart == 11

\* decimal()'s default start
DefaultStart == 1

\* id_generators.decimal(start): a counter whose first value is start
decimal(start) == start

\* next(generator) on a decimal generator with cursor c: the value it
\* yields and the cursor it is left with
NextValue(c) == c
NextCursor(c) == c + 1

----------------------------------------------------------------------------
\* sort_request

\* id put before params
sort_order_IdFirst == <<"jsonrpc", "method", "id", "params">>

sort_order == <<"jsonrpc", "method", "params", "id">>

\* sort_order.index(k)
Index(k) == CHOOSE i \in 1..Len(sort_order) : sort_order[i] = k

\* sorted(items, key=...): a stable sort, by insertion
RECURSIVE Insert(_, _)
Insert(s, p) ==
    IF s = <<>> THEN <<p>>
    ELSE IF Index(p[1]) < Index(s[Len(s)][1])
         THEN Append(Insert(SubSeq(s, 1, Len(s) - 1), p), s[Len(s)])
         ELSE Append(s, p)

RECURSIVE Sorted(_)
Sorted(items) ==
    IF items = <<>> THEN <<>>
    ELSE Insert(Sorted(SubSeq(items, 1, Len(items) - 1)), items[Len(items)])

\* OrderedDict(sorted(req.items(), key=lambda k: sort_order.index(k[0])))
sort_request(req) == Sorted(req)

\* json.dumps: the keys in the order of the mapping it is given; a tuple is
\* written as an array, like a list
RECURSIVE JsonValue(_)
JsonValue(v) ==
    IF v.kind \in {"list", "tuple"}
    THEN [kind |-> "array", val |-> [i \in 1..Len(v.val) |-> JsonValue(v.val[i])]]
    ELSE IF v.kind = "dict"
    THEN [kind |-> "object", val |-> { <<p[1], JsonValue(p[2])>> : p \in v.val }]
    ELSE v

JsonDumps(d) == [i \in 1..Len(d) |-> <<d[i][1], JsonValue(d[i][2])>>]

----------------------------------------------------------------------------
\* Notification.__init__

\* the kwargs dict put before the positional arguments
ParamsList_KwargsFirst(args, kwargs) ==
    (IF kwargs # {} THEN <<PyDict(kwargs)>> ELSE <<>>)
        \o (IF args # <<>> THEN args ELSE <<>>)

\* lines 92-96: the positional arguments, then the kwargs dict if not empty
ParamsList(args, kwargs) ==
    (IF args # <<>> THEN args ELSE <<>>)
        \o (IF kwargs # {} THEN <<PyDict(kwargs)>> ELSE <<>>)

\* isinstance(params_list[0], dict) left out
IsSingleContainer_ListOnly(params_list) ==
    /\ Len(params_list) = 1
    /\ IsInstanceList(params_list[1])

\* lines 102-104: only one list or dict in the params list
IsSingleContainer(params_list) ==
    /\ Len(params_list) = 1
    /\ (IsInstanceDict(params_list[1]) \/ IsInstanceList(params_list[1]))

\* "if params_list:" left out
AddParams_Always(self, params_list) ==
    IF IsSingleContainer(params_list)
    THEN Update(self, "params", params_list[1])
    ELSE Update(self, "params", PyList(params_list))

\* lines 98-107: add the params to self
AddParams(self, params_list) ==
    IF params_list # <<>>
    THEN IF IsSingleContainer(params_list)
         THEN Update(self, "params", params_list[1])
         ELSE Update(self, "params", PyList(params_list))
    ELSE self

NotificationInit(method, args, kwargs) ==
    LET self == Update(Update(<<>>, "jsonrpc", PyStr("2.0")), "method", PyStr(method))
    IN  AddParams(self, ParamsList(args, kwargs))

\* Notification.__str__
NotificationStr(self) == JsonDumps(sort_request(self))

----------------------------------------------------------------------------
\* Request.__init__

\* The id_generator argument: a generator, or the default None.
NoGen == "None"

\* the id_generator argument ignored
ChooseGenerator_AlwaysDefault(id_generator) == DefaultGen

\* line 138: id_generator or self.id_generator
ChooseGenerator(id_generator) ==
    IF id_generator # NoGen THEN id_generator ELSE DefaultGen

\* kwargs.pop("request_id", next(...)): the generator is advanced before the
\* key is looked up
ResolveId_AlwaysNext(id_generator, kwargs, g) ==
    LET gen == ChooseGenerator(id_generator)
        after == [g EXCEPT ![gen] = NextCursor(g[gen])]
    IN  IF HasKey(kwargs, "request_id")
        THEN [id |-> Get(kwargs, "request_id"),
              kwargs |-> Pop(kwargs, "request_id"),
              gens |-> after]
        ELSE [id |-> PyInt(NextValue(g[gen])), kwargs |-> kwargs, gens |-> after]

\* kwargs.pop("request_id", None) or next(...): an id of None counts as absent
ResolveId_NoneIsAbsent(id_generator, kwargs, g) ==
    LET gen == ChooseGenerator(id_generator)
    IN  IF HasKey(kwargs, "request_id") /\ Get(kwargs, "request_id") # PyNone
        THEN [id |-> Get(kwargs, "request_id"),
              kwargs |-> Pop(kwargs, "request_id"),
              gens |-> g]
        ELSE [id |-> PyInt(NextValue(g[gen])),
              kwargs |-> Pop(kwargs, "request_id"),
              gens |-> [g EXCEPT ![gen] = NextCursor(g[gen])]]

\* lines 135-138: the id, the kwargs left, and the generators' cursors after
ResolveId(id_generator, kwargs, g) ==
    IF HasKey(kwargs, "request_id")
    THEN [id |-> Get(kwargs, "request_id"),
          kwargs |-> Pop(kwargs, "request_id"),
          gens |-> g]
    ELSE LET gen == ChooseGenerator(id_generator)
         IN  [id |-> PyInt(NextValue(g[gen])),
              kwargs |-> kwargs,
              gens |-> [g EXCEPT ![gen] = NextCursor(g[gen])]]

\* the id not taken from id_
SetId_AlwaysNone(self, id_) == Update(self, "id", PyNone)

\* line 141: self.update(id=id_)
SetId(self, id_) == Update(self, "id", id_)

\* super().__init__ given the kwargs as passed, request_id still among them
RequestInit_KeepsRequestId(method, args, id_generator, kwargs, g) ==
    LET r == ResolveId(id_generator, kwargs, g)
    IN  [self |-> SetId(NotificationInit(method, args, kwargs), r.id),
         gens |-> r.gens]

\* lines 131-141: the payload and the generators' cursors after
RequestInit(method, args, id_generator, kwargs, g) ==
    LET r == ResolveId(id_generator, kwargs, g)
    IN  [self |-> SetId(NotificationInit(method, args, r.kwargs), r.id),
         gens |-> r.gens]

----------------------------------------------------------------------------
\* _RequestClassType

Classes == { "Notification", "Request" }

\* The method names the callers use. "cat" is no attribute of either class;
\* "update" is a method both inherit from dict; "id_generator" is the class
\* attribute of Request.
Methods == { "cat", "update", "id_generator" }

\* The attributes the ordinary lookup finds on the class: those of dict, and
\* for Request the class attribute id_generator of line 129.
ClassAttributes(cls) ==
    { "update", "get", "keys", "pop" }
        \cup (IF cls = "Request" THEN { "id_generator" } ELSE {})

\* __getattr__ runs for the undefined attributes of the class only
IsUndefinedAttribute(cls, name) == name \notin ClassAttributes(cls)

\* cls(method, *args, **kwargs)
Construct(cls, method, args, id_generator, kwargs, g) ==
    IF cls = "Request"
    THEN RequestInit(method, args, id_generator, kwargs, g)
    ELSE [self |-> NotificationInit(method, args, kwargs), gens |-> g]

\* cls(name, *args): the keyword arguments dropped
attr_handler_DropsKwargs(cls, name, args, id_generator, kwargs, g) ==
    Construct(cls, name, args, NoGen, {}, g)

\* line 53: return cls(name, *args, **kwargs)
attr_handler(cls, name, args, id_generator, kwargs, g) ==
    Construct(cls, name, args, id_generator, kwargs, g)

----------------------------------------------------------------------------
\* The sequential caller: one operation at a time.

Idle == [op |-> "idle"]

\* The Request was built with neither request_id nor id_generator.
UsesDefault(cls, id_generator, kwargs) ==
    /\ cls = "Request"
    /\ id_generator = NoGen
    /\ ~HasKey(kwargs, "request_id")

\* The id generators a class accepts: Notification takes none.
GenArgs(cls) == IF cls = "Request" THEN { NoGen, CallerGen } ELSE { NoGen }

\* No generator is advanced further than the model follows it.
WithinBounds(g) ==
    /\ g[DefaultGen] <= decimal(DefaultStart) + MaxId
    /\ g[CallerGen] <= decimal(CallerStart) + MaxId

Observe(via, cls, method, args, id_generator, kwargs, made, r) ==
    [op |-> "build", via |-> via, cls |-> cls, method |-> method, args |-> args,
     id_generator |-> id_generator, kwargs |-> kwargs,
     made |-> made, self |-> r.self, pre |-> gens]

\* The calls the callers make: the class, the method name, the positional
\* arguments, the id_generator argument and the keyword arguments. The
\* id-control arguments go to Request only.
Calls ==
    { c \in [cls : Classes, method : Methods, args : ArgsSet,
             id_generator : { NoGen, CallerGen }, kwargs : KwargsSet] :
        /\ c.id_generator \in GenArgs(c.cls)
        /\ c.cls = "Notification" => ~HasKey(c.kwargs, "request_id") }

Issue(c, r) ==
    IF UsesDefault(c.cls, c.id_generator, c.kwargs)
    THEN Append(issued, Item(r.self, "id"))
    ELSE issued

\* Notification(method, *args, **kwargs) or Request(method, *args, **kwargs)
Build ==
    /\ last = Idle
    /\ \E c \in Calls :
          LET r == Construct(c.cls, c.method, c.args, c.id_generator, c.kwargs, gens)
          IN  /\ WithinBounds(r.gens)
              /\ gens' = r.gens
              /\ issued' = Issue(c, r)
              /\ last' = Observe("call", c.cls, c.method, c.args, c.id_generator,
                                 c.kwargs, TRUE, r)
    /\ UNCHANGED <<pc, chosen, built, overlap>>

\* Notification.name(*args, **kwargs) or Request.name(*args, **kwargs), name
\* undefined on the class: __getattr__ returns attr_handler, which is called
AttrCall ==
    /\ last = Idle
    /\ \E c \in Calls :
          LET r == attr_handler(c.cls, c.method, c.args, c.id_generator, c.kwargs, gens)
          IN  /\ IsUndefinedAttribute(c.cls, c.method)
              /\ WithinBounds(r.gens)
              /\ gens' = r.gens
              /\ issued' = Issue(c, r)
              /\ last' = Observe("attribute", c.cls, c.method, c.args, c.id_generator,
                                 c.kwargs, TRUE, r)
    /\ UNCHANGED <<pc, chosen, built, overlap>>

\* Request.name(...) with name an attribute the class has: the ordinary
\* lookup returns that attribute, __getattr__ is not run, no payload is built
DefinedAttrCall ==
    /\ last = Idle
    /\ \E c \in Calls :
          /\ ~IsUndefinedAttribute(c.cls, c.method)
          /\ last' = Observe("attribute", c.cls, c.method, c.args, c.id_generator,
                             c.kwargs, FALSE, [self |-> <<>>])
    /\ UNCHANGED <<gens, issued, pc, chosen, built, overlap>>

\* str(payload) on the payload just built
StrCall ==
    /\ last.op = "build"
    /\ last.made
    /\ last' = [op |-> "str", self |-> last.self, text |-> NotificationStr(last.self)]
    /\ UNCHANGED <<gens, issued, pc, chosen, built, overlap>>

\* A request dict with the keys in any insertion order.
KeyValue(k) ==
    IF k = "jsonrpc" THEN PyStr("2.0")
    ELSE IF k = "method" THEN PyStr("add")
    ELSE IF k = "params" THEN PyList(<<PyInt(2), PyInt(3)>>)
    ELSE PyInt(2)

RECURSIVE Orderings(_)
Orderings(keys) ==
    IF keys = {} THEN { <<>> }
    ELSE UNION { { <<k>> \o o : o \in Orderings(keys \ {k}) } : k \in keys }

RequestDicts ==
    { [i \in 1..Len(o) |-> <<o[i], KeyValue(o[i])>>] :
        o \in UNION { Orderings(ks) : ks \in SUBSET { sort_order[i] : i \in 1..Len(sort_order) } } }

\* sort_request(req) on a dict the caller wrote
SortCall ==
    /\ last = Idle
    /\ \E req \in RequestDicts :
          last' = [op |-> "sort_request", req |-> req, result |-> sort_request(req)]
    /\ UNCHANGED <<gens, issued, pc, chosen, built, overlap>>

\* The caller is done with the result.
Discard ==
    /\ last # Idle
    /\ last' = Idle
    /\ UNCHANGED <<gens, issued, pc, chosen, built, overlap>>

Callers == { "c1", "c2", "c3" }

Init ==
    /\ gens = [g \in Generators |->
                 IF g = DefaultGen THEN decimal(DefaultStart) ELSE decimal(CallerStart)]
    /\ issued = <<>>
    /\ last = Idle
    /\ pc = [c \in Callers |-> "idle"]
    /\ chosen = [c \in Callers |-> 0]
    /\ built = [c \in Callers |-> <<>>]
    /\ overlap = FALSE

Next ==
    \/ Build
    \/ AttrCall
    \/ DefinedAttrCall
    \/ SortCall
    \/ StrCall
    \/ Discard

Spec == Init /\ [][Next]_vars

----------------------------------------------------------------------------
\* What the claims speak of, stated from the call and not from the code.

\* A payload was built by the last operation.
Made == last.op = "build" /\ last.made

\* The keyword arguments of the last call, the id-control argument
\* request_id of a Request not counted.
CallKeywords ==
    IF last.cls = "Request"
    THEN { p \in last.kwargs : p[1] # "request_id" }
    ELSE last.kwargs

\* The working list of the last call: the positional arguments, then the
\* keyword mapping as one element when it is not empty.
WorkingList ==
    last.args \o (IF CallKeywords # {} THEN <<PyDict(CallKeywords)>> ELSE <<>>)

ExplicitId == last.cls = "Request" /\ \E p \in last.kwargs : p[1] = "request_id"

\* C1 as stated: when the working list has exactly one element and that
\* element is a sequence or a mapping of any kind, params is that element
\* itself.
C1_UnwrapAnyContainer ==
    Made =>
        ((Len(WorkingList) = 1 /\ IsSequenceOrMapping(WorkingList[1]))
            => /\ HasItem(last.self, "params")
               /\ Item(last.self, "params") = WorkingList[1])

\* C1 amended: when the working list has exactly one element and that
\* element is a list or a dict, params is that element itself; the only
\* element being the keyword mapping is such a case.
C1_UnwrapListOrDict ==
    Made =>
        ((Len(WorkingList) = 1 /\ WorkingList[1].kind \in {"list", "dict"})
            => /\ HasItem(last.self, "params")
               /\ Item(last.self, "params") = WorkingList[1])

\* Notification('cat', name='Mittens') gives params == {'name': 'Mittens'}
C1_Witness ==
    /\ Made
    /\ last.cls = "Notification"
    /\ last.args = <<>>
    /\ last.kwargs = { <<"name", PyStr("Mittens")>> }
    /\ Item(last.self, "params") = PyDict({ <<"name", PyStr("Mittens")>> })

\* C2: when the working list is not empty (the empty one gives no params,
\* C7) and is not a single sequence or mapping, params is the working list:
\* the positional arguments in call order, then the whole keyword mapping as
\* one trailing element.
C2_ParamsIsWorkingList ==
    Made =>
        ((/\ WorkingList # <<>>
          /\ ~(Len(WorkingList) = 1 /\ IsSequenceOrMapping(WorkingList[1])))
            => /\ HasItem(last.self, "params")
               /\ Item(last.self, "params") = PyList(WorkingList)
               /\ Len(Item(last.self, "params").val)
                    = Len(last.args) + (IF CallKeywords # {} THEN 1 ELSE 0))

\* two positional arguments and two keyword arguments: params has three elements
C2_Witness ==
    /\ Made
    /\ last.args = <<PyStr("Mittens"), PyInt(5)>>
    /\ last.kwargs = KwItems
    /\ Item(last.self, "params") = PyList(<<PyStr("Mittens"), PyInt(5), PyDict(KwItems)>>)

\* C3: a Request built with request_id carries exactly that value as id,
\* None included, and no generator's cursor moves, neither the default's nor
\* that of a generator passed in the same call.
C3_ExplicitIdVerbatim ==
    (Made /\ ExplicitId) =>
        /\ HasItem(last.self, "id")
        /\ Item(last.self, "id") = (CHOOSE p \in last.kwargs : p[1] = "request_id")[2]
        /\ gens = last.pre

\* request_id=None together with an id_generator, after the default generator
\* has been used
C3_Witness ==
    /\ Made /\ ExplicitId
    /\ last.id_generator = CallerGen
    /\ Item(last.self, "id") = PyNone
    /\ gens[DefaultGen] = 2
    /\ gens[CallerGen] = last.pre[CallerGen]

\* C4: the k-th Request built with neither request_id nor id_generator
\* carries id k, whatever was built in between.
C4_DefaultIdsCount ==
    \A k \in 1..Len(issued) : issued[k] = PyInt(k)

\* three such Requests were built, and the caller's generator and an explicit
\* id were used as well
C4_Witness ==
    /\ Len(issued) = MaxId
    /\ gens[CallerGen] > CallerStart
    /\ Made /\ ExplicitId

\* C5: a Request with an id_generator and no request_id takes its id from
\* that generator and moves its cursor by one, the default's staying; a
\* Request with neither moves the default's cursor by one and no other; a
\* Notification moves no cursor.
C5_GeneratorEffects ==
    Made =>
        /\ (last.cls = "Request" /\ ~ExplicitId /\ last.id_generator = CallerGen)
              => /\ Item(last.self, "id") = PyInt(last.pre[CallerGen])
                 /\ gens[CallerGen] = last.pre[CallerGen] + 1
                 /\ gens[DefaultGen] = last.pre[DefaultGen]
        /\ (last.cls = "Request" /\ ~ExplicitId /\ last.id_generator = NoGen)
              => /\ Item(last.self, "id") = PyInt(last.pre[DefaultGen])
                 /\ gens[DefaultGen] = last.pre[DefaultGen] + 1
                 /\ gens[CallerGen] = last.pre[CallerGen]
        /\ last.cls = "Notification" => gens = last.pre

\* a Request took the second value of the caller's generator after the
\* default generator had been used
C5_Witness ==
    /\ Made
    /\ last.cls = "Request" /\ ~ExplicitId /\ last.id_generator = CallerGen
    /\ Item(last.self, "id") = PyInt(CallerStart + 1)
    /\ gens[DefaultGen] = 2

\* C6: every Request payload has the key id, no Notification payload has,
\* and the Request without its id is the Notification payload of the same
\* method, positional and keyword arguments: request_id and id_generator are
\* not in params and do not change it.
C6_RequestIsNotificationPlusId ==
    Made =>
        /\ last.cls = "Request" =>
              /\ HasItem(last.self, "id")
              /\ Without(last.self, "id")
                    = NotificationInit(last.method, last.args, CallKeywords)
              /\ HasItem(last.self, "params") =>
                    LET params == Item(last.self, "params")
                    IN  /\ params.kind = "dict" => ~HasKey(params.val, "request_id")
                        /\ params.kind = "list" =>
                              \A i \in 1..Len(params.val) :
                                  (i > Len(last.args) /\ params.val[i].kind = "dict")
                                      => ~HasKey(params.val[i].val, "request_id")
        /\ last.cls = "Notification" => ~HasItem(last.self, "id")

\* a Request with request_id=None, an id_generator and a keyword named id
C6_Witness ==
    /\ Made
    /\ last.cls = "Request"
    /\ last.id_generator = CallerGen
    /\ last.kwargs = { <<"id", PyInt(5)>>, <<"request_id", PyNone>> }
    /\ last.args = <<>>
    /\ last.self = << <<"jsonrpc", PyStr("2.0")>>, <<"method", PyStr(last.method)>>,
                      <<"params", PyDict({ <<"id", PyInt(5)>> })>>, <<"id", PyNone>> >>

\* C7: params is present exactly when a positional or a keyword argument
\* (request_id not counted) was passed; from the method alone a Notification
\* is {jsonrpc: "2.0", method: m} and a Request is that plus id.
C7_ParamsIffArguments ==
    Made =>
        /\ HasItem(last.self, "params") <=> (last.args # <<>> \/ CallKeywords # {})
        /\ (last.args = <<>> /\ CallKeywords = {}) =>
              /\ { last.self[i][1] : i \in 1..Len(last.self) }
                    = { "jsonrpc", "method" }
                        \cup (IF last.cls = "Request" THEN { "id" } ELSE {})
              /\ Len(last.self) = IF last.cls = "Request" THEN 3 ELSE 2
              /\ Item(last.self, "jsonrpc") = PyStr("2.0")
              /\ Item(last.self, "method") = PyStr(last.method)

\* a Request whose only keyword argument is request_id has no params
C7_Witness ==
    /\ Made
    /\ last.cls = "Request"
    /\ last.args = <<>>
    /\ last.kwargs = { <<"request_id", PyInt(7)>> }
    /\ ~HasItem(last.self, "params")

\* The place of a key in the canonical order jsonrpc, method, params, id.
CanonicalRank(k) ==
    CASE k = "jsonrpc" -> 1 [] k = "method" -> 2 [] k = "params" -> 3 [] k = "id" -> 4

InCanonicalOrder(d) ==
    \A i, j \in 1..Len(d) : i < j => CanonicalRank(d[i][1]) < CanonicalRank(d[j][1])

\* C8: the serialized form of a built payload has its keys in the order
\* jsonrpc, method, params, id; sort_request on a dict with any of these keys
\* in any insertion order returns the same key/value pairs in that order.
C8_CanonicalKeyOrder ==
    /\ last.op = "str" =>
          /\ InCanonicalOrder(last.text)
          /\ Keys(last.text) = Keys(sort_request(last.self))
          /\ { last.text[i][1] : i \in 1..Len(last.text) }
                = { last.self[i][1] : i \in 1..Len(last.self) }
    /\ last.op = "sort_request" =>
          /\ InCanonicalOrder(last.result)
          /\ Len(last.result) = Len(last.req)
          /\ { last.result[i] : i \in 1..Len(last.result) }
                = { last.req[i] : i \in 1..Len(last.req) }

\* the dict of the docstring, written id, params, method, jsonrpc
C8_Witness ==
    /\ last.op = "sort_request"
    /\ Keys(last.req) = <<"id", "params", "method", "jsonrpc">>
    /\ Keys(last.result) = <<"jsonrpc", "method", "params", "id">>

\* C9 as stated: for every name n, cls.n(*args, **kwargs) builds the payload
\* cls(n, *args, **kwargs) builds, with the same effect on the generators.
C9_AttributeFormAnyName ==
    (last.op = "build" /\ last.via = "attribute") =>
        LET direct == Construct(last.cls, last.method, last.args,
                                last.id_generator, last.kwargs, last.pre)
        IN  /\ last.made
            /\ last.self = direct.self
            /\ gens = direct.gens

\* C9 amended: for every name n that is not an attribute the class already
\* has, cls.n(*args, **kwargs) builds the payload cls(n, *args, **kwargs)
\* builds, with the same effect on the generators.
C9_AttributeFormUndefinedName ==
    (/\ last.op = "build"
     /\ last.via = "attribute"
     /\ last.method \notin { "update", "get", "keys", "pop" }
     /\ ~(last.cls = "Request" /\ last.method = "id_generator")) =>
        LET direct == Construct(last.cls, last.method, last.args,
                                last.id_generator, last.kwargs, last.pre)
        IN  /\ last.made
            /\ last.self = direct.self
            /\ gens = direct.gens

\* Request.cat(name='Mittens') took the second id of the default generator
C9_Witness ==
    /\ Made
    /\ last.via = "attribute"
    /\ last.cls = "Request"
    /\ last.method = "cat"
    /\ last.kwargs = { <<"name", PyStr("Mittens")>> }
    /\ last.args = <<>>
    /\ last.id_generator = NoGen
    /\ Item(last.self, "id") = PyInt(2)

----------------------------------------------------------------------------
\* Concurrent callers, each building Request('cat') against the default
\* generator. next() on the shared generator is not synchronized: a caller
\* reads the cursor, and stores the cursor it computed when it leaves.

\* line 138, first half: the generator is chosen and its cursor read
EnterNext(c) ==
    /\ pc[c] = "idle"
    /\ Len(built[c]) < MaxPerCaller
    /\ chosen' = [chosen EXCEPT ![c] = NextValue(gens[ChooseGenerator(NoGen)])]
    /\ overlap' = (overlap \/ \E d \in Callers \ {c} : pc[d] = "in_next")
    /\ pc' = [pc EXCEPT ![c] = "in_next"]
    /\ UNCHANGED <<gens, issued, last, built>>

\* line 138, second half, and lines 140-141: the generator stores its cursor,
\* next() returns, and the payload is completed
LeaveNext(c) ==
    /\ pc[c] = "in_next"
    /\ gens' = [gens EXCEPT ![ChooseGenerator(NoGen)] = NextCursor(chosen[c])]
    /\ built' = [built EXCEPT ![c] =
                    Append(@, SetId(NotificationInit("cat", <<>>, {}), PyInt(chosen[c])))]
    /\ pc' = [pc EXCEPT ![c] = "idle"]
    /\ UNCHANGED <<issued, last, chosen, overlap>>

NextConcurrent ==
    \E c \in Callers : EnterNext(c) \/ LeaveNext(c)

SpecConcurrent == Init /\ [][NextConcurrent]_vars

\* The ids of the Requests the concurrent callers have built.
BuiltIds(c) == [i \in 1..Len(built[c]) |-> Item(built[c][i], "id")]

NoIdTwice ==
    /\ \A c \in Callers : \A i, j \in 1..Len(built[c]) :
          i # j => BuiltIds(c)[i] # BuiltIds(c)[j]
    /\ \A c, d \in Callers : \A i \in 1..Len(built[c]), j \in 1..Len(built[d]) :
          c # d => BuiltIds(c)[i] # BuiltIds(d)[j]

\* C10 as stated: under every interleaving of the callers' steps no two of
\* the Requests built against the default generator carry the same id.
C10_UniqueUnderAnyInterleaving == NoIdTwice

\* C10 amended: as long as no two callers have been inside the generator's
\* next() at the same time, no two of the Requests built against the default
\* generator carry the same id.
C10_UniqueWithoutOverlap == ~overlap => NoIdTwice

\* every caller has built all its Requests, one caller at a time
C10_Witness ==
    /\ ~overlap
    /\ \A c \in Callers : Len(built[c]) = MaxPerCaller

====
